---------------------------- MODULE Spec2Model ----------------------------
(***************************************************************************)
(* Page navigation state of the test driver (src/drivers/test/page.go):    *)
(* one page owning a History, a Markup engine and its mounted component.   *)
(*                                                                         *)
(* The History, the Markup engine, the Factory and ComponentNameFromURL    *)
(* belong to package app, whose files are not part of src/; they are       *)
(* modelled from the specification (sections 3, 4.3 and 4.4).              *)
(***************************************************************************)
EXTENDS Integers, Sequences, FiniteSets

VARIABLES
    history,    \* page.history: [entries : Seq(STRING), cursor : Int]
    markup,     \* page.markup: the set of components the engine has mounted
    component,  \* page.component: the field set by load, NoComponent for nil
    elements,   \* d.elements: the elements in the Element Directory
    last        \* the most recent call: its name (op) and argument, the
                \* error and value it returned, the Markup states it passed
                \* through (trace), the call made before it (prev) and the
                \* page as it was when the call started (before)

\* The dispatch queue of the mac driver (src/drivers/mac/driver.go).
VARIABLES
    uichanState, \* d.uichan: "nil" before Run makes it, "open", "closed"
    uichan,      \* the functions buffered in d.uichan, oldest first
    cancelled,   \* whether d.cancel() was called: ctx.Done() is closed
    runPC,       \* where Driver.Run is
    function,    \* the function Run received and is executing
    executed,    \* the functions that ran to completion, in order
    enqueued,    \* the functions whose send on d.uichan completed, in order
    caller,      \* the threads calling CallOnUIGoroutine: [pc, f]
    request      \* the "/driver/run" request of Run's goroutine

\* The Platform Request Client: each requesting thread's call, the next
\* correlation id, the requests the native side has not answered, the
\* responses on the reply channel, the ids resolved so far in order, and
\* the last delivery.
VARIABLES calls, nextID, outbound, replies, resolved, delivery

\* One Referer call racing with one History operation of another thread:
\* [phase, start, ref, other, op, arg].
VARIABLES race

\* Concurrent calls of Driver.Run: the package variable driver (0 for nil,
\* else the thread whose Driver it points to) and where each call is.
VARIABLES driver, runner

pageVars == <<history, markup, component, elements, last>>

driverVars == <<uichanState, uichan, cancelled, runPC, function, executed,
                enqueued, caller, request>>

bridgeVars == <<calls, nextID, outbound, replies, resolved, delivery>>

\* What each state machine leaves alone.
runVars == <<driver, runner>>
notPage == <<driverVars, bridgeVars, race, runVars>>
notDriver == <<pageVars, bridgeVars, race, runVars>>
notBridge == <<pageVars, driverVars, race, runVars>>
notRace == <<markup, component, elements, last, driverVars, bridgeVars, runVars>>
notRun == <<pageVars, driverVars, bridgeVars, race>>

vars == <<history, markup, component, elements, last, race, driver, runner, calls, nextID, outbound, replies,
          resolved, delivery,
          uichanState, uichan, cancelled, runPC, function, executed,
          enqueued, caller, request>>

(***************************************************************************)
(* Bounds                                                                  *)
(***************************************************************************)
\* Longest history explored: a call that would grow it further is not taken.
MaxEntries == 3

\* Threads that call CallOnUIGoroutine, once each.
NCallers == 3

\* Capacity of d.uichan as explored; Run makes it with 4096 places.
QueueCap == 2

\* How many requests the Platform Request Client sends.
MaxRequests == 3

\* How many responses matching no pending request the native side sends.
MaxStray == 1

(***************************************************************************)
(* Values                                                                  *)
(***************************************************************************)
\* The nil error.
NoError == ""

\* c.(*url.URL) == nil, as returned by Referer.
NilURL == "<nil>"

\* page.component == nil.
NoComponent == [name |-> "", id |-> 0]

\* Raw URLs handed to Load.  "APP://home" is rewritten by url.Parse (the
\* scheme is lowercased), "%zz" holds an invalid escape.
RawURLs == {"app://home", "app://settings", "app://ghost", "app://broken",
            "APP://home", "%zz"}

\* Component names the Factory knows.  "ghost" is not registered.
Registered == {"home", "settings", "broken"}

\* Registered components whose rendering fails, so Markup.Mount fails.
Unmountable == {"broken"}

(***************************************************************************)
(* fmt.Sprintf and net/url                                                 *)
(***************************************************************************)
\* fmt.Sprintf(rawurl) with no operands: text without a verb is copied, a
\* verb with no operand left is printed as %!verb(MISSING).
Sprintf(rawurl) ==
    IF rawurl = "%zz" THEN "%!z(MISSING)z" ELSE rawurl

\* url.Parse: the scheme is lowercased; an invalid percent escape fails.
Parse(rawurl) ==
    CASE rawurl \in {"app://home", "APP://home"} ->
            [err |-> NoError, u |-> [Scheme |-> "app", Host |-> "home"]]
      [] rawurl = "app://settings" ->
            [err |-> NoError, u |-> [Scheme |-> "app", Host |-> "settings"]]
      [] rawurl = "app://ghost" ->
            [err |-> NoError, u |-> [Scheme |-> "app", Host |-> "ghost"]]
      [] rawurl = "app://broken" ->
            [err |-> NoError, u |-> [Scheme |-> "app", Host |-> "broken"]]
      [] OTHER ->
            [err |-> "ParseError", u |-> [Scheme |-> "", Host |-> ""]]

\* (*url.URL).String.
String(u) == u.Scheme \o "://" \o u.Host

(***************************************************************************)
(* History (app.NewHistory wrapped by app.NewConcurrentHistory): every     *)
(* operation is one atomic step on the entries/cursor pair.                *)
(***************************************************************************)
NewHistory == [entries |-> <<>>, cursor |-> -1]

\* Current(): entries[cursor]; NotFound if empty.  The cursor counts from 0.
history_Current(h) ==
    IF Len(h.entries) = 0
    THEN [err |-> "NotFound", url |-> ""]
    ELSE [err |-> NoError, url |-> h.entries[h.cursor + 1]]

\* history_NewEntry appending without dropping the forward entries.
history_NewEntry_appending(h, u) ==
    [entries |-> Append(h.entries, u), cursor |-> Len(h.entries)]

\* history_NewEntry leaving the cursor where it was.
history_NewEntry_cursor_kept(h, u) ==
    [entries |-> Append(SubSeq(h.entries, 1, h.cursor + 1), u), cursor |-> h.cursor]

\* NewEntry(u): drop every entry with index > cursor, append u, set the
\* cursor to the new last entry.
history_NewEntry(h, u) ==
    LET kept == SubSeq(h.entries, 1, h.cursor + 1)
        entries == Append(kept, u)
    IN  [entries |-> entries, cursor |-> Len(entries) - 1]

\* CanPrevious(): there is an entry below the cursor.
history_CanPrevious(h) == h.cursor > 0

\* CanNext(): there is an entry above the cursor.
history_CanNext(h) == h.cursor < Len(h.entries) - 1

\* Previous(): NotFound if the history is empty or the cursor is 0; else
\* cursor--, return the new current entry.
history_Previous(h) ==
    IF Len(h.entries) = 0 \/ h.cursor = 0
    THEN [err |-> "NotFound", url |-> "", history |-> h]
    ELSE [err |-> NoError, url |-> h.entries[h.cursor],
          history |-> [h EXCEPT !.cursor = h.cursor - 1]]

\* Next(): NotFound if the history is empty or the cursor is on the last
\* entry; else cursor++, return the new current entry.
history_Next(h) ==
    IF Len(h.entries) = 0 \/ h.cursor = Len(h.entries) - 1
    THEN [err |-> "NotFound", url |-> "", history |-> h]
    ELSE [err |-> NoError, url |-> h.entries[h.cursor + 2],
          history |-> [h EXCEPT !.cursor = h.cursor + 1]]

(***************************************************************************)
(* Factory, ComponentNameFromURL and the Markup engine                     *)
(***************************************************************************)
\* app.ComponentNameFromURL: "app://home" names component "home".
ComponentNameFromURL(u) == u.Host

\* The identities of the components a page still refers to.
LiveIDs(p) == {c.id : c \in p.markup \cup {p.component}}

\* A newly allocated component is distinct from every live one.
FreshID(p) == CHOOSE i \in 1..(Cardinality(LiveIDs(p)) + 1) :
                  /\ i \notin LiveIDs(p)
                  /\ \A j \in 1..(i - 1) : j \in LiveIDs(p)

\* Factory.New(name): a new instance of a registered component.
factory_New(p, name) ==
    IF name \in Registered
    THEN [err |-> NoError, compo |-> [name |-> name, id |-> FreshID(p)]]
    ELSE [err |-> "FactoryError", compo |-> NoComponent]

\* Markup.Mount(c): fails, mounting nothing, if c is already mounted or
\* cannot be rendered.
markup_Mount(m, c) ==
    IF c \in m \/ c.name \in Unmountable
    THEN [err |-> "MountError", markup |-> m]
    ELSE [err |-> NoError, markup |-> m \cup {c}]

\* Markup.Dismount(c).
markup_Dismount(m, c) == m \ {c}

\* Markup.Contains(c).
markup_Contains(m, c) == c \in m


(***************************************************************************)
(* The page (src/drivers/test/page.go).  An operation takes the page       *)
(* p = [history, markup, component] and yields the page it leaves, the     *)
(* error and value it returns, and the Markup states it passed through.    *)
(***************************************************************************)
\* The page as newPage builds it (no DefaultURL): empty history, nothing
\* mounted, component nil.
newPage == [history |-> NewHistory, markup |-> {}, component |-> NoComponent]

Result(p, err, ret, trace) ==
    [page |-> p, err |-> err, ret |-> ret, trace |-> trace]

\* Contains(c).
page_Contains(p, c) == markup_Contains(p.markup, c)

\* Component().
page_Component(p) == p.component

\* load_dismount without the Dismount call.
load_dismount_skipped(p) == p

\* load, first step: dismount the component the page holds, if any.
load_dismount(p) ==
    IF p.component # NoComponent
    THEN [p EXCEPT !.markup = markup_Dismount(p.markup, p.component)]
    ELSE p

\* load_mount without the assignment to p.component.
load_mount_unstored(p, compo) ==
    LET m == markup_Mount(p.markup, compo)
    IN  Result([p EXCEPT !.markup = m.markup],
               IF m.err # NoError THEN "MountError" ELSE NoError, "", <<m.markup>>)

\* load, last step: mount the new component and, on success, store it.
load_mount(p, compo) ==
    LET m == markup_Mount(p.markup, compo)
    IN  IF m.err # NoError
        THEN Result([p EXCEPT !.markup = m.markup], "MountError", "", <<m.markup>>)
        ELSE Result([p EXCEPT !.markup = m.markup, !.component = compo],
                    NoError, "", <<m.markup>>)

\* page_load mounting the new component before it dismounts the old one.
page_load_mount_first(p, u) ==
    LET f == factory_New(p, ComponentNameFromURL(u))
        m == markup_Mount(p.markup, f.compo)
        q == [p EXCEPT !.markup = m.markup]
        d == IF p.component # NoComponent
             THEN [q EXCEPT !.markup = markup_Dismount(q.markup, p.component)]
             ELSE q
    IN  IF f.err # NoError
        THEN Result(p, f.err, "", <<>>)
        ELSE IF m.err # NoError
        THEN Result(d, "MountError", "", <<q.markup, d.markup>>)
        ELSE Result([d EXCEPT !.component = f.compo], NoError, "",
                    <<q.markup, d.markup>>)

\* load(u): dismount, resolve the component from the Factory, mount it.
page_load(p, u) ==
    LET d == load_dismount(p)
        passed == IF p.component # NoComponent THEN <<d.markup>> ELSE <<>>
        f == factory_New(d, ComponentNameFromURL(u))
    IN  IF f.err # NoError
        THEN Result(d, f.err, "", passed)
        ELSE LET r == load_mount(d, f.compo)
             IN  Result(r.page, r.err, r.ret, passed \o r.trace)

\* load_record without the comparison with the current entry.
load_record_always(h, u) == history_NewEntry(h, String(u))

\* Load, history part: record a new entry unless u is the current one.
load_record(h, u) ==
    LET cur == history_Current(h)
    IN  IF cur.err # NoError \/ cur.url # String(u)
        THEN history_NewEntry(h, String(u))
        ELSE h

\* page_Load giving the history back as it was when load fails.
page_Load_rollback(p, rawurl) ==
    LET parsed == Parse(Sprintf(rawurl))
        r == page_load([p EXCEPT !.history = load_record(p.history, parsed.u)],
                       parsed.u)
    IN  IF parsed.err # NoError
        THEN Result(p, parsed.err, "", <<>>)
        ELSE IF r.err # NoError
        THEN Result([r.page EXCEPT !.history = p.history], r.err, r.ret, r.trace)
        ELSE r

\* Load(rawurl).
page_Load(p, rawurl) ==
    LET parsed == Parse(Sprintf(rawurl))
    IN  IF parsed.err # NoError
        THEN Result(p, parsed.err, "", <<>>)
        ELSE page_load([p EXCEPT !.history = load_record(p.history, parsed.u)],
                       parsed.u)

\* page_Reload reading the entry from Previous() instead of Current().
page_Reload_stepping(p) ==
    LET prev == history_Previous(p.history)
        parsed == Parse(prev.url)
        q == [p EXCEPT !.history = prev.history]
    IN  IF prev.err # NoError THEN Result(q, prev.err, "", <<>>)
        ELSE IF parsed.err # NoError THEN Result(q, parsed.err, "", <<>>)
        ELSE page_load(q, parsed.u)

\* Reload().
page_Reload(p) ==
    LET cur == history_Current(p.history)
        parsed == Parse(cur.url)
    IN  IF cur.err # NoError THEN Result(p, cur.err, "", <<>>)
        ELSE IF parsed.err # NoError THEN Result(p, parsed.err, "", <<>>)
        ELSE page_load(p, parsed.u)

\* page_CanPrevious asking the History for CanNext.
page_CanPrevious_next(p) == history_CanNext(p.history)

\* CanPrevious().
page_CanPrevious(p) == history_CanPrevious(p.history)

\* page_Previous dismounting before it looks at the History's error.
page_Previous_dismounting(p) ==
    LET prev == history_Previous(p.history)
        parsed == Parse(prev.url)
        q == load_dismount([p EXCEPT !.history = prev.history])
    IN  IF prev.err # NoError THEN Result(q, prev.err, "", <<q.markup>>)
        ELSE IF parsed.err # NoError THEN Result(q, parsed.err, "", <<q.markup>>)
        ELSE page_load(q, parsed.u)

\* Previous().
page_Previous(p) ==
    LET prev == history_Previous(p.history)
        parsed == Parse(prev.url)
        q == [p EXCEPT !.history = prev.history]
    IN  IF prev.err # NoError THEN Result(q, prev.err, "", <<>>)
        ELSE IF parsed.err # NoError THEN Result(q, parsed.err, "", <<>>)
        ELSE page_load(q, parsed.u)

\* CanNext().
page_CanNext(p) == history_CanNext(p.history)

\* Next().
page_Next(p) ==
    LET next == history_Next(p.history)
        parsed == Parse(next.url)
        q == [p EXCEPT !.history = next.history]
    IN  IF next.err # NoError THEN Result(q, next.err, "", <<>>)
        ELSE IF parsed.err # NoError THEN Result(q, parsed.err, "", <<>>)
        ELSE page_load(q, parsed.u)

\* page_Referer without the Next() call that restores the cursor.
page_Referer_unrestored(p) ==
    LET prev == history_Previous(p.history)
        parsed == Parse(prev.url)
    IN  Result([p EXCEPT !.history = prev.history], NoError,
               IF prev.err = NoError /\ parsed.err = NoError
               THEN String(parsed.u) ELSE NilURL,
               <<>>)

\* Referer(): step back, read the entry, step forward again.
page_Referer(p) ==
    LET prev == history_Previous(p.history)
        parsed == Parse(prev.url)
        restored == history_Next(prev.history).history
    IN  IF prev.err # NoError
        THEN Result([p EXCEPT !.history = prev.history], NoError, NilURL, <<>>)
        ELSE Result([p EXCEPT !.history = restored], NoError,
                    IF parsed.err = NoError THEN String(parsed.u) ELSE NilURL,
                    <<>>)

(***************************************************************************)
(* The mac driver before Run is called (src/drivers/mac/driver.go).        *)
(***************************************************************************)
Callers == 1..NCallers

\* No function: the zero value of Run's variable function.
NoFunction == [id |-> 0, kind |-> ""]

\* The Driver as constructed: no queue yet, no context, nothing enqueued.
newDriver ==
    /\ uichanState = "nil"
    /\ uichan = <<>>
    /\ cancelled = FALSE
    /\ runPC = "start"
    /\ function = NoFunction
    /\ executed = <<>>
    /\ enqueued = <<>>
    /\ caller = [c \in Callers |-> [pc |-> "idle", f |-> NoFunction]]
    /\ request = "none"

(***************************************************************************)
(* The Platform Request Client (bridge.PlatformBridge)                     *)
(***************************************************************************)
\* The paths of the two RequestWithAsyncResponse calls of the driver.
Paths == {"/driver/contextmenu/set?menu-id=m1", "/driver/share"}

NoPayload == [of |-> "", n |-> 0]

NoCall == [pc |-> "idle", id |-> 0, path |-> "", result |-> NoPayload]

NoDelivery == [kind |-> "none", id |-> 0, payload |-> NoPayload, before |-> <<>>]

newBridge ==
    /\ calls = [c \in Callers |-> NoCall]
    /\ nextID = 1
    /\ outbound = {}
    /\ replies = {}
    /\ resolved = <<>>
    /\ delivery = NoDelivery

\* No race yet: the page is used by one thread.
newRace ==
    race = [phase |-> "setup", start |-> NewHistory, ref |-> "idle",
            other |-> "idle", op |-> "", arg |-> ""]

\* The package before any Run call: var driver *Driver is nil.
newRuns ==
    /\ driver = 0
    /\ runner = [c \in Callers |-> "idle"]

(***************************************************************************)
(* The Element Directory (app.NewElemDB wrapped by app.NewConcurrentElemDB) *)
(* with the one page newPage adds to it                                    *)
(***************************************************************************)
ThePage == "page"

NoElement == ""

elemdb_Add(es, e) == es \cup {e}

\* Remove leaving the element in the directory.
elemdb_Remove_kept(es, e) == es

elemdb_Remove(es, e) == es \ {e}

\* ElementByComponent(c): the element of the directory that hosts c,
\* NotFound if none does.  The page hosts what its Contains reports.
elemdb_ElementByComponent(es, p, c) ==
    IF ThePage \in es /\ page_Contains(p, c)
    THEN [err |-> NoError, elem |-> ThePage]
    ELSE [err |-> "NotFound", elem |-> NoElement]

\* Driver.ElementByComponent.
ElementByComponent(es, p, c) == elemdb_ElementByComponent(es, p, c)

\* page.Close: the onClose callback newPage registered.
page_Close(es) == elemdb_Remove(es, ThePage)

(***************************************************************************)
(* State machine of one page: calls are made one after the other.          *)
(***************************************************************************)
Page == [history |-> history, markup |-> markup, component |-> component]

BoolText(b) == IF b THEN "true" ELSE "false"

Init ==
    /\ history = newPage.history
    /\ markup = newPage.markup
    /\ component = newPage.component
    /\ elements = elemdb_Add({}, ThePage)
    /\ last = [op |-> "newPage", arg |-> "", err |-> NoError, ret |-> "",
               trace |-> <<>>, prev |-> "", before |-> newPage]
    /\ newDriver
    /\ newBridge
    /\ newRace
    /\ newRuns

\* A call of operation op with argument arg whose outcome is r.
Call(op, arg, r) ==
    /\ history' = r.page.history
    /\ markup' = r.page.markup
    /\ component' = r.page.component
    /\ last' = [op |-> op, arg |-> arg, err |-> r.err, ret |-> r.ret,
                trace |-> r.trace, prev |-> last.op, before |-> Page]
    /\ UNCHANGED elements
    /\ UNCHANGED notPage

CallLoad ==
    \E rawurl \in RawURLs :
        LET r == page_Load(Page, rawurl)
        IN  /\ Len(r.page.history.entries) <= MaxEntries
            /\ Call("Load", rawurl, r)

CallReload == Call("Reload", "", page_Reload(Page))

CallPrevious == Call("Previous", "", page_Previous(Page))

CallNext == Call("Next", "", page_Next(Page))

CallCanPrevious ==
    Call("CanPrevious", "", Result(Page, NoError, BoolText(page_CanPrevious(Page)), <<>>))

CallCanNext ==
    Call("CanNext", "", Result(Page, NoError, BoolText(page_CanNext(Page)), <<>>))

CallReferer == Call("Referer", "", page_Referer(Page))

CallClose ==
    /\ elements' = page_Close(elements)
    /\ last' = [op |-> "Close", arg |-> "", err |-> NoError, ret |-> "",
                trace |-> <<>>, prev |-> last.op, before |-> Page]
    /\ UNCHANGED <<history, markup, component>>
    /\ UNCHANGED notPage

Next ==
    \/ CallLoad
    \/ CallReload
    \/ CallPrevious
    \/ CallNext
    \/ CallCanPrevious
    \/ CallCanNext
    \/ CallReferer
    \/ CallClose

Spec == Init /\ [][Next]_vars

(***************************************************************************)
(* State machine of a History used on its own: any sequence of its calls,  *)
(* with any location string, on the history of a new page.                 *)
(***************************************************************************)
\* A History call op with argument arg, leaving history h and returning
\* err and ret; the page's Markup and component are not involved.
HistoryCall(op, arg, h, err, ret) ==
    /\ history' = h
    /\ last' = [op |-> op, arg |-> arg, err |-> err, ret |-> ret,
                trace |-> <<>>, prev |-> last.op, before |-> Page]
    /\ UNCHANGED <<markup, component, elements>>
    /\ UNCHANGED notPage

HistoryNewEntry ==
    \E u \in RawURLs :
        /\ Len(history_NewEntry(history, u).entries) <= MaxEntries
        /\ HistoryCall("History.NewEntry", u, history_NewEntry(history, u), NoError, "")

HistoryCurrent ==
    LET r == history_Current(history)
    IN  HistoryCall("History.Current", "", history, r.err, r.url)

HistoryPrevious ==
    LET r == history_Previous(history)
    IN  HistoryCall("History.Previous", "", r.history, r.err, r.url)

HistoryNext ==
    LET r == history_Next(history)
    IN  HistoryCall("History.Next", "", r.history, r.err, r.url)

HistoryCanPrevious ==
    HistoryCall("History.CanPrevious", "", history, NoError,
                BoolText(history_CanPrevious(history)))

HistoryCanNext ==
    HistoryCall("History.CanNext", "", history, NoError,
                BoolText(history_CanNext(history)))

NextHistory ==
    \/ HistoryNewEntry
    \/ HistoryCurrent
    \/ HistoryPrevious
    \/ HistoryNext
    \/ HistoryCanPrevious
    \/ HistoryCanNext

SpecHistory == Init /\ [][NextHistory]_vars

(***************************************************************************)
(* Properties of the page                                                  *)
(***************************************************************************)
\* The calls that navigate: each ends in load unless it fails before.
Navigation == {"Load", "Reload", "Previous", "Next"}

\* The entry the history is on, "" when it is empty.
CurrentURL(h) == history_Current(h).url

\* The component name the Factory is asked for when location is loaded.
NameOf(location) == ComponentNameFromURL(Parse(location).u)

\* C1: in every state, and in every Markup state a call passes through, at
\* most one component is mounted; a call that mounts a new component has
\* first dismounted the one that was mounted when it started.
C1_AtMostOneMounted ==
    /\ Cardinality(markup) <= 1
    /\ \A i \in DOMAIN last.trace : Cardinality(last.trace[i]) <= 1
    /\ (last.op \in Navigation /\ markup \ last.before.markup # {}) =>
           \A c \in last.before.markup :
               /\ Len(last.trace) = 2
               /\ ~markup_Contains(last.trace[1], c)
               /\ last.trace[2] = markup

\* A navigation replaced a mounted component by a new one.
C1_Witness ==
    /\ last.op \in Navigation
    /\ last.before.markup # {}
    /\ markup # {}
    /\ markup # last.before.markup

\* The end-to-end run of section 8 on a new page.
EndToEnd ==
    LET l1 == page_Load(newPage, "app://home")
        l2 == page_Load(l1.page, "app://settings")
        pr == page_Previous(l2.page)
        nx == page_Next(pr.page)
    IN  /\ l1.err = NoError /\ l2.err = NoError
        /\ pr.err = NoError /\ nx.err = NoError
        /\ <<l1.page.component.name, l2.page.component.name,
             pr.page.component.name, nx.page.component.name>>
               = <<"home", "settings", "home", "settings">>
        /\ \A r \in {l1, l2, pr, nx} : r.page.markup = {r.page.component}
        /\ CurrentURL(l1.page.history) = "app://home"
        /\ page_CanPrevious(l2.page)
        /\ page_CanNext(pr.page)

\* C2: after a navigation that returned no error, the mounted component is
\* the one the Factory resolves from the name of history.Current(); a
\* successful Previous leaves CanNext true, a successful Load that recorded
\* an entry on a non-empty history leaves CanPrevious true; the end-to-end
\* run mounts home, settings, home, settings.
C2_MountedIsCurrent ==
    /\ (last.op \in Navigation /\ last.err = NoError) =>
           /\ history_Current(history).err = NoError
           /\ component # NoComponent
           /\ markup = {component}
           /\ page_Contains(Page, page_Component(Page))
           /\ component.name = NameOf(CurrentURL(history))
           /\ component.name \in Registered
    /\ (last.op = "Previous" /\ last.err = NoError) => page_CanNext(Page)
    /\ (last.op = "Load" /\ last.err = NoError
            /\ Len(last.before.history.entries) > 0
            /\ history # last.before.history) => page_CanPrevious(Page)
    /\ EndToEnd

\* The page after Load(home), Load(settings), Previous(), Next().
C2_Witness ==
    /\ last.op = "Next" /\ last.prev = "Previous" /\ last.err = NoError
    /\ history = [entries |-> <<"app://home", "app://settings">>, cursor |-> 1]
    /\ component.name = "settings"
    /\ markup = {component}

\* C3 as claimed: whenever Load returns an error, whatever its cause, nothing
\* is mounted and the component mounted before is not contained any more.
C3_AnyFailedLoadDismounts ==
    (last.op = "Load" /\ last.err # NoError) =>
        /\ markup = {}
        /\ \A c \in last.before.markup : ~page_Contains(Page, c)

\* C3, amended: when Load fails in its load step (Factory error or mount
\* error) nothing is mounted and the component mounted before is dismounted;
\* when it fails on the URL parse error the page is left as it was, its
\* component still mounted.
C3_FailedLoadStepDismounts ==
    /\ (last.op = "Load" /\ last.err \in {"FactoryError", "MountError"}) =>
           /\ markup = {}
           /\ \A c \in last.before.markup : ~page_Contains(Page, c)
           /\ component = last.before.component
    /\ (last.op = "Load" /\ last.err = "ParseError") => Page = last.before
    /\ (last.op = "Load" /\ last.err # NoError) =>
           last.err \in {"ParseError", "FactoryError", "MountError"}

\* A Load failed at Mount while a component was mounted.
C3_Witness ==
    /\ last.op = "Load"
    /\ last.err = "MountError"
    /\ last.before.markup # {}
    /\ last.before.markup = {last.before.component}

\* C4: Previous with no previous entry, and Next with no next entry, return
\* NotFound and leave the history, the Markup and the component as they were.
C4_NoEntryLeavesPage ==
    /\ (last.op = "Previous"
            /\ (Len(last.before.history.entries) = 0
                    \/ last.before.history.cursor = 0)) =>
           /\ last.err = "NotFound"
           /\ Page = last.before
           /\ last.trace = <<>>
    /\ (last.op = "Next"
            /\ (Len(last.before.history.entries) = 0
                    \/ last.before.history.cursor
                           = Len(last.before.history.entries) - 1)) =>
           /\ last.err = "NotFound"
           /\ Page = last.before
           /\ last.trace = <<>>

\* Previous failed on the first entry while a component was mounted.
C4_Witness ==
    /\ last.op = "Previous"
    /\ last.err = "NotFound"
    /\ Len(history.entries) > 0
    /\ markup = {component}

\* Whether the last call recorded a History entry: NewEntry always moves
\* the cursor.
Recorded == history # last.before.history

\* C5 as claimed: Load(url) records an entry iff the history is empty or url
\* differs from history.Current().
C5_RecordsIffDifferent ==
    (last.op = "Load") =>
        (Recorded <=> (Len(last.before.history.entries) = 0
                          \/ last.arg # CurrentURL(last.before.history)))

\* C5, amended: Load(url) of a URL that parses to u records an entry iff the
\* history is empty or u.String() differs from history.Current(), and the
\* entry recorded is u.String(), put right above the cursor; a Load of the
\* current URL leaves entries and cursor (forward entries included)
\* unchanged; a Load whose URL does not parse records nothing.
C5_RecordsIffParsedDifferent ==
    (last.op = "Load") =>
        LET parsed == Parse(Sprintf(last.arg))
            h == last.before.history
        IN  IF parsed.err # NoError
            THEN ~Recorded
            ELSE /\ Recorded <=> (Len(h.entries) = 0
                                     \/ String(parsed.u) # CurrentURL(h))
                 /\ Recorded =>
                        /\ history.entries
                               = SubSeq(h.entries, 1, h.cursor + 1)
                                     \o <<String(parsed.u)>>
                        /\ history.cursor = h.cursor + 1
                 /\ CurrentURL(history) = String(parsed.u)

\* A Load of the current URL, with a forward entry, recorded nothing.
C5_Witness ==
    /\ last.op = "Load"
    /\ last.err = NoError
    /\ ~Recorded
    /\ history_CanNext(history)
    /\ Parse(Sprintf(last.arg)).err = NoError
    /\ String(Parse(Sprintf(last.arg)).u) = CurrentURL(history)

(***************************************************************************)
(* Properties of the History                                               *)
(***************************************************************************)
\* NewEntry(u1), NewEntry(u2), Previous(), NewEntry(u3) on History h.
PushPushBackPush(h, u1, u2, u3) ==
    history_NewEntry(
        history_Previous(history_NewEntry(history_NewEntry(h, u1), u2)).history,
        u3)

\* C6: NewEntry(u) keeps the entries up to the cursor and nothing above it,
\* appends u and puts the cursor on it, so that Current() is u, CanNext() is
\* false and Next() fails; for distinct u1, u2, u3 the sequence NewEntry(u1),
\* NewEntry(u2), Previous(), NewEntry(u3) on an empty History ends with
\* entries [u1, u3] on u3, from where Previous leads to u1 and u2 cannot be
\* reached.
C6_NewEntryDropsForward ==
    /\ (last.op = "History.NewEntry") =>
           LET h == last.before.history
           IN  /\ Len(history.entries) = h.cursor + 2
               /\ \A i \in 1..(h.cursor + 1) : history.entries[i] = h.entries[i]
               /\ history.entries[Len(history.entries)] = last.arg
               /\ history.cursor = Len(history.entries) - 1
               /\ history_Current(history) = [err |-> NoError, url |-> last.arg]
               /\ ~history_CanNext(history)
               /\ history_Next(history).err = "NotFound"
    /\ (Len(history.entries) = 0) =>
           \A u1, u2, u3 \in RawURLs :
               (u1 # u2 /\ u2 # u3 /\ u1 # u3) =>
                   LET h == PushPushBackPush(history, u1, u2, u3)
                   IN  /\ h.entries = <<u1, u3>>
                       /\ history_Current(h).url = u3
                       /\ ~history_CanNext(h)
                       /\ history_Next(h).err = "NotFound"
                       /\ history_Previous(h).url = u1
                       /\ ~history_CanPrevious(history_Previous(h).history)

\* NewEntry was called below the last entry and the forward entries are
\* gone.
C6_Witness ==
    /\ last.op = "History.NewEntry"
    /\ last.prev = "History.Previous"
    /\ last.before.history.cursor < Len(last.before.history.entries) - 1
    /\ Len(history.entries) < Len(last.before.history.entries)
    /\ \A i \in DOMAIN history.entries :
           history.entries[i] # last.before.history.entries[Len(last.before.history.entries)]

\* C7: once the history is non-empty, 0 <= cursor < len(entries) and
\* Current() returns entries[cursor] (the cursor counts from 0, sequences
\* from 1); on an empty history Current() fails with NotFound.
C7_CursorInRange ==
    /\ (Len(history.entries) > 0) =>
           /\ 0 <= history.cursor
           /\ history.cursor < Len(history.entries)
           /\ history_Current(history)
                  = [err |-> NoError, url |-> history.entries[history.cursor + 1]]
    /\ (Len(history.entries) = 0) => history_Current(history).err = "NotFound"
    /\ (last.op = "History.Current" /\ Len(history.entries) > 0) =>
           /\ last.err = NoError
           /\ last.ret = history.entries[history.cursor + 1]
           /\ history = last.before.history

\* Current() was called with the cursor below the last of several entries.
C7_Witness ==
    /\ last.op = "History.Current"
    /\ Len(history.entries) = 3
    /\ history.cursor = 1
    /\ last.ret = history.entries[2]

\* C8: CanPrevious() is false exactly when Previous() fails, which it does
\* with NotFound and exactly when the history is empty or the cursor is 0;
\* CanNext() is false exactly when Next() fails, with NotFound and exactly
\* when the history is empty or the cursor is on the last entry; the page's
\* CanPrevious and CanNext agree with its Previous and Next in the same way;
\* CanPrevious and CanNext change neither entries nor cursor.
C8_CanMirrorsStep ==
    LET empty == Len(history.entries) = 0
        prev == history_Previous(history)
        next == history_Next(history)
    IN  /\ history_CanPrevious(history) <=> prev.err = NoError
        /\ prev.err # NoError => prev.err = "NotFound" /\ prev.history = history
        /\ ~history_CanPrevious(history) <=> (empty \/ history.cursor = 0)
        /\ history_CanNext(history) <=> next.err = NoError
        /\ next.err # NoError => next.err = "NotFound" /\ next.history = history
        /\ ~history_CanNext(history)
               <=> (empty \/ history.cursor = Len(history.entries) - 1)
        /\ ~page_CanPrevious(Page) <=> page_Previous(Page).err = "NotFound"
        /\ ~page_CanNext(Page) <=> page_Next(Page).err = "NotFound"
        /\ (last.op \in {"History.CanPrevious", "History.CanNext"}) =>
               history = last.before.history
        /\ (last.op = "History.Previous") =>
               (last.err = "NotFound"
                    <=> ~history_CanPrevious(last.before.history))
        /\ (last.op = "History.Next") =>
               (last.err = "NotFound" <=> ~history_CanNext(last.before.history))

\* CanPrevious() returned false on the first of several entries, where
\* CanNext() is true.
C8_Witness ==
    /\ last.op = "History.CanPrevious"
    /\ last.ret = "false"
    /\ Len(history.entries) > 1
    /\ history.cursor = 0
    /\ history_CanNext(history)

(***************************************************************************)
(* Properties of Referer and Reload                                        *)
(***************************************************************************)
\* C9: Referer leaves entries, cursor, Markup and component as they were;
\* it returns the entry at cursor-1 when the cursor is greater than 0, and
\* nil when it is 0 or the history is empty.
C9_RefererNetNoOp ==
    (last.op = "Referer") =>
        LET h == last.before.history
        IN  /\ history = h
            /\ markup = last.before.markup
            /\ component = last.before.component
            /\ last.trace = <<>>
            /\ last.ret = IF h.cursor > 0 THEN h.entries[h.cursor] ELSE NilURL

\* Referer returned the entry below a cursor that has an entry above it.
C9_Witness ==
    /\ last.op = "Referer"
    /\ last.ret # NilURL
    /\ history.cursor = 1
    /\ Len(history.entries) = 3
    /\ last.ret = history.entries[1]
    /\ markup = {component}

\* C10: Reload never changes entries or cursor; of two Reloads in a row the
\* second returns what the first returned and, when they succeed, mounts a
\* component of the same name as the first did, the one the Factory resolves
\* from history.Current(), as a new instance.
C10_ReloadIdempotent ==
    /\ (last.op = "Reload") => history = last.before.history
    /\ (last.op = "Reload" /\ last.prev = "Reload") =>
           /\ last.err = NoError <=> last.before.markup # {}
           /\ last.err = NoError =>
                  /\ markup = {component}
                  /\ last.before.markup = {last.before.component}
                  /\ component.name = last.before.component.name
                  /\ component.name = NameOf(CurrentURL(history))
                  /\ component # last.before.component
           /\ last.err # NoError => markup = {} /\ last.before.markup = {}

\* Two Reloads in a row succeeded on a history with back and forward
\* entries.
C10_Witness ==
    /\ last.op = "Reload" /\ last.prev = "Reload" /\ last.err = NoError
    /\ history_CanPrevious(history) /\ history_CanNext(history)
    /\ markup = {component}
    /\ last.before.markup = {last.before.component}

\* The URL Load compares with the current entry: the parsed one, as text.
Requested == String(Parse(Sprintf(last.arg)).u)

\* C20: a Load whose URL differs from the current entry and whose load
\* step fails (Factory error or mount error) keeps the history change:
\* the current entry is the new URL and is the last entry, the entries
\* before it are those up to the old cursor, and the component field is
\* still the component the page held, which is no longer mounted.
C20_FailedLoadKeepsEntry ==
    (/\ last.op = "Load"
     /\ last.err \in {"FactoryError", "MountError"}
     /\ \/ Len(last.before.history.entries) = 0
        \/ Requested # CurrentURL(last.before.history))
        => /\ history_Current(history).err = NoError
           /\ CurrentURL(history) = Requested
           /\ ~history_CanNext(history)
           /\ history.cursor = last.before.history.cursor + 1
           /\ \A i \in 1..(history.cursor) :
                  history.entries[i] = last.before.history.entries[i]
           /\ component = last.before.component
           /\ ~markup_Contains(markup, component)
           /\ markup = {}

\* A Load from the middle of a history of three entries fails in its mount
\* step: the entry it recorded replaced the forward entries, and the
\* component it dismounted is still in the component field.
C20_Witness ==
    /\ last.op = "Load"
    /\ last.err = "MountError"
    /\ Len(last.before.history.entries) = 3
    /\ history_CanNext(last.before.history)
    /\ Len(history.entries) < 3
    /\ CurrentURL(history) = "app://broken"
    /\ component # NoComponent
    /\ component \in last.before.markup

\* C16: while the page is in the Element Directory, after each successful
\* Load, Reload, Previous or Next the directory finds the page by the
\* page's component and does not find it by the component that call
\* dismounted; Close removes the page, and once it is removed the
\* directory answers NotFound for the page's component.
C16_ReachableByComponent ==
    /\ (ThePage \in elements /\ last.op \in Navigation /\ last.err = NoError)
           => /\ ElementByComponent(elements, Page, page_Component(Page))
                     = [err |-> NoError, elem |-> ThePage]
              /\ (last.before.component \notin {NoComponent, component})
                     => ElementByComponent(elements, Page,
                                           last.before.component).err
                            = "NotFound"
    /\ (last.op = "Close") => ThePage \notin elements
    /\ (ThePage \notin elements)
           => ElementByComponent(elements, Page, page_Component(Page)).err
                  = "NotFound"

\* Close is called after a successful Load replaced a mounted component:
\* the page still holds its mounted component and is no longer found.
C16_Witness ==
    /\ last.op = "Close"
    /\ last.prev = "Load"
    /\ last.err = NoError
    /\ ThePage \notin elements
    /\ component # NoComponent
    /\ page_Contains(Page, component)
    /\ Len(history.entries) >= 2

(***************************************************************************)
(* State machine of the dispatch queue: Driver.Run, the threads that call  *)
(* CallOnUIGoroutine, and the native side of the "/driver/run" request.    *)
(*                                                                         *)
(* A function is [id, kind].  What it does when Run executes it:           *)
(*   "plain"    returns                                                    *)
(*   "panic"    panics (as onRun does when the menu bar cannot be made)    *)
(*   "enqueue"  calls CallOnUIGoroutine with a function of kind "child"    *)
(*   "exit"     is onExit: it calls d.cancel()                             *)
(*   "child"    returns                                                    *)
(***************************************************************************)
CallerKinds == {"plain", "panic", "enqueue", "exit"}

\* An unrecovered panic ends the process: nothing runs after it.
Alive ==
    /\ runPC # "crashed"
    /\ \A c \in Callers : caller[c].pc # "panicked"

\* A send on d.uichan can complete: the channel is open and has room.
CanSend == uichanState = "open" /\ Len(uichan) < QueueCap

\* Run up to its loop: the "already running" check, make(chan func(),
\* 4096), the handlers, the context, and the goroutine that sends the
\* "/driver/run" request.
RunSetup ==
    /\ Alive
    /\ runPC = "start"
    /\ runPC' = "select"
    /\ uichanState' = "open"
    /\ uichan' = <<>>
    /\ request' = "pending"
    /\ UNCHANGED <<cancelled, function, executed, enqueued, caller>>

\* Received yielding the function sent last.
Received_newest(q) == q[Len(q)]

\* The function a receive on the channel yields: the oldest one.
Received(q) == Head(q)

\* The channel after that receive.
AfterReceive(q) == Tail(q)

\* case function := <-d.uichan
Receive ==
    /\ Alive
    /\ runPC = "select"
    /\ Len(uichan) > 0
    /\ function' = Received(uichan)
    /\ uichan' = AfterReceive(uichan)
    /\ runPC' = "exec"
    /\ UNCHANGED <<uichanState, cancelled, executed, enqueued, caller, request>>

\* case <-ctx.Done(): Run leaves the loop for "return <-errC".
ObserveDone ==
    /\ Alive
    /\ runPC = "select"
    /\ cancelled
    /\ runPC' = "waitErr"
    /\ UNCHANGED <<uichanState, uichan, cancelled, function, executed,
                   enqueued, caller, request>>

\* function() returns: Run is back at its select.
ExecReturn ==
    /\ Alive
    /\ runPC = "exec"
    /\ function.kind \in {"plain", "child"}
    /\ executed' = Append(executed, function)
    /\ runPC' = "select"
    /\ UNCHANGED <<uichanState, uichan, cancelled, function, enqueued,
                   caller, request>>

\* function() is onExit: d.cancel(), then it returns.
ExecExit ==
    /\ Alive
    /\ runPC = "exec"
    /\ function.kind = "exit"
    /\ cancelled' = TRUE
    /\ executed' = Append(executed, function)
    /\ runPC' = "select"
    /\ UNCHANGED <<uichanState, uichan, function, enqueued, caller, request>>

\* Where Run is after function() panicked: the call at its loop has no
\* recover, so the panic unwinds Run, whose deferred d.cancel() and
\* close(d.uichan) run, and ends the process.
AfterPanic == "crashed"

\* function() panics.
ExecPanic ==
    /\ Alive
    /\ runPC = "exec"
    /\ function.kind = "panic"
    /\ runPC' = AfterPanic
    /\ cancelled' = IF AfterPanic = "crashed" THEN TRUE ELSE cancelled
    /\ uichanState' = IF AfterPanic = "crashed" THEN "closed" ELSE uichanState
    /\ UNCHANGED <<uichan, function, executed, enqueued, caller, request>>

\* function() calls CallOnUIGoroutine: it is at the send on d.uichan.
ExecEnqueue ==
    /\ Alive
    /\ runPC = "exec"
    /\ function.kind = "enqueue"
    /\ runPC' = "send"
    /\ UNCHANGED <<uichanState, uichan, cancelled, function, executed,
                   enqueued, caller, request>>

\* The send of the executing function completes and the function returns.
WorkerSend ==
    /\ Alive
    /\ runPC = "send"
    /\ CanSend
    /\ uichan' = Append(uichan, [id |-> function.id, kind |-> "child"])
    /\ enqueued' = Append(enqueued, [id |-> function.id, kind |-> "child"])
    /\ executed' = Append(executed, function)
    /\ runPC' = "select"
    /\ UNCHANGED <<uichanState, cancelled, function, caller, request>>

\* return <-errC, then the deferred close(d.uichan) and d.cancel().
RunReturn ==
    /\ Alive
    /\ runPC = "waitErr"
    /\ request = "replied"
    /\ runPC' = "returned"
    /\ request' = "done"
    /\ uichanState' = "closed"
    /\ UNCHANGED <<uichan, cancelled, function, executed, enqueued, caller>>

\* The native side answers the "/driver/run" request: d.macos.Request
\* returns and the goroutine is at "errC <- err".
NativeReply ==
    /\ Alive
    /\ request = "pending"
    /\ request' = "replied"
    /\ UNCHANGED <<uichanState, uichan, cancelled, runPC, function, executed,
                   enqueued, caller>>

\* A thread calls CallOnUIGoroutine(f); the Go bridge enqueues the handler
\* of a native event (onExit for "/driver/exit") in the same way.  Before
\* Run has made the channel the send is on a nil channel and never
\* completes: such a call is left out.
CallOnUIGoroutine(c) ==
    /\ Alive
    /\ caller[c].pc = "idle"
    /\ uichanState # "nil"
    /\ \E k \in CallerKinds :
           caller' = [caller EXCEPT ![c] = [pc |-> "send",
                                            f |-> [id |-> c, kind |-> k]]]
    /\ UNCHANGED <<uichanState, uichan, cancelled, runPC, function, executed,
                   enqueued, request>>

\* d.uichan <- f completes.
CallerSend(c) ==
    /\ Alive
    /\ caller[c].pc = "send"
    /\ CanSend
    /\ uichan' = Append(uichan, caller[c].f)
    /\ enqueued' = Append(enqueued, caller[c].f)
    /\ caller' = [caller EXCEPT ![c].pc = "done"]
    /\ UNCHANGED <<uichanState, cancelled, runPC, function, executed, request>>

\* d.uichan <- f on the closed channel: the send panics.
CallerPanic(c) ==
    /\ Alive
    /\ caller[c].pc = "send"
    /\ uichanState = "closed"
    /\ caller' = [caller EXCEPT ![c].pc = "panicked"]
    /\ UNCHANGED <<uichanState, uichan, cancelled, runPC, function, executed,
                   enqueued, request>>

NextDriver ==
    \/ (RunSetup /\ UNCHANGED notDriver)
    \/ (Receive /\ UNCHANGED notDriver)
    \/ (ObserveDone /\ UNCHANGED notDriver)
    \/ (ExecReturn /\ UNCHANGED notDriver)
    \/ (ExecExit /\ UNCHANGED notDriver)
    \/ (ExecPanic /\ UNCHANGED notDriver)
    \/ (ExecEnqueue /\ UNCHANGED notDriver)
    \/ (WorkerSend /\ UNCHANGED notDriver)
    \/ (RunReturn /\ UNCHANGED notDriver)
    \/ (NativeReply /\ UNCHANGED notDriver)
    \/ \E c \in Callers : CallOnUIGoroutine(c) /\ UNCHANGED notDriver
    \/ \E c \in Callers : CallerSend(c) /\ UNCHANGED notDriver
    \/ \E c \in Callers : CallerPanic(c) /\ UNCHANGED notDriver

SpecDriver == Init /\ [][NextDriver]_vars

\* The scheduling the Go side provides: Run and every calling thread keep
\* taking the steps they can take, and a select whose ctx.Done() case is
\* ready again and again chooses it at some point (the choice among ready
\* cases is random).  Nothing is assumed of the native side: whether and
\* when the "/driver/run" request is answered is up to it.
FairDriver ==
    /\ WF_vars(RunSetup /\ UNCHANGED notDriver)
    /\ WF_vars(Receive /\ UNCHANGED notDriver)
    /\ SF_vars(ObserveDone /\ UNCHANGED notDriver)
    /\ WF_vars(ExecReturn /\ UNCHANGED notDriver)
    /\ WF_vars(ExecExit /\ UNCHANGED notDriver)
    /\ WF_vars(ExecPanic /\ UNCHANGED notDriver)
    /\ WF_vars(ExecEnqueue /\ UNCHANGED notDriver)
    /\ WF_vars(WorkerSend /\ UNCHANGED notDriver)
    /\ WF_vars(RunReturn /\ UNCHANGED notDriver)
    /\ \A c \in Callers :
           /\ WF_vars(CallerSend(c) /\ UNCHANGED notDriver)
           /\ WF_vars(CallerPanic(c) /\ UNCHANGED notDriver)

SpecDriverFair == Init /\ [][NextDriver]_vars /\ FairDriver

(***************************************************************************)
(* Properties of the dispatch queue                                        *)
(***************************************************************************)
\* The functions Run has begun to execute, in order: those that completed
\* and the one it is in.
Begun ==
    executed \o (IF runPC \in {"exec", "send", "crashed"}
                 THEN <<function>> ELSE <<>>)

\* C11: the functions are executed one at a time in the order in which
\* their enqueues completed: those begun, followed by those still in the
\* channel, are the enqueued ones in order, so when a function begins every
\* function enqueued before it has run to completion.
C11_FifoOneAtATime ==
    /\ Begun \o uichan = enqueued
    /\ Len(executed) <= Len(Begun)
    /\ Len(Begun) <= Len(executed) + 1
    /\ \A i \in DOMAIN executed : executed[i] = enqueued[i]
    /\ (runPC = "exec") => function = enqueued[Len(executed) + 1]

\* A function runs after two others completed while one more waits, the
\* three callers' functions in the order of their enqueues.
C11_Witness ==
    /\ runPC = "exec"
    /\ Len(executed) = 2
    /\ Len(uichan) = 1
    /\ {f.id : f \in {executed[1], executed[2], function}} = {1, 2, 3}
    /\ executed[1].id = 3

\* C12 as claimed: a panic of a function Run executes is caught and Run
\* stays in its loop.
C12_PanicDoesNotStopLoop == runPC # "crashed"

\* C14 as claimed: a CallOnUIGoroutine call made by the function Run is
\* executing can complete; while Run is inside that function nothing else
\* receives from the channel, so the channel must have room.
C14_WorkerEnqueueReturns == (runPC = "send") => Len(uichan) < QueueCap

\* onExit has run: Run executed the handler of "/driver/exit".
ExitRan == \E i \in DOMAIN executed : executed[i].kind = "exit"

\* Run is over, or is held by something other than the wait for the
\* "/driver/run" request: the process ended on a panic, or the executing
\* function is blocked in its own enqueue on the full channel.
RunOver ==
    \/ runPC \in {"returned", "crashed"}
    \/ \E c \in Callers : caller[c].pc = "panicked"
    \/ runPC = "send" /\ Len(uichan) = QueueCap

\* C15 as claimed: once onExit has run, Run eventually returns; the
\* request it waits for is completed or failed, never left pending.
C15_RunReturnsAfterExit == ExitRan ~> RunOver

\* C15, the half that holds: once onExit has run, the loop is eventually
\* left, whatever else arrives in the channel.
C15_LoopObservesCancel == ExitRan ~> (RunOver \/ runPC = "waitErr")

\* C18 as claimed: no CallOnUIGoroutine call sends on the closed channel.
C18_NoSendOnClosed == \A c \in Callers : caller[c].pc # "panicked"

(***************************************************************************)
(* State machine of the Platform Request Client: threads calling           *)
(* RequestWithAsyncResponse (as Driver.NewContextMenu and Driver.NewShare  *)
(* do), the native side answering in any order, and the delivery of the    *)
(* responses of the reply channel.                                         *)
(***************************************************************************)
\* The correlation ids of the pending requests.
PendingIDs(cs) == {cs[c].id : c \in {x \in DOMAIN cs : cs[x].pc = "waiting"}}

\* What the native side answers to a request: a payload of that request.
PayloadFor(m) == [of |-> m.path, n |-> m.id]

\* Matching that takes any pending request for the one a response is for.
Matching_any(cs, id) == {c \in DOMAIN cs : cs[c].pc = "waiting"}

\* The pending requests a response with this correlation id is for.
Matching(cs, id) == {c \in DOMAIN cs : cs[c].pc = "waiting" /\ cs[c].id = id}

\* The calls after a response arrived: the call it matches returns its
\* payload; a response that matches none changes nothing.
Delivered(cs, resp) ==
    IF Matching(cs, resp.id) = {}
    THEN cs
    ELSE LET c == CHOOSE x \in Matching(cs, resp.id) : TRUE
         IN  [cs EXCEPT ![c] = [pc |-> "idle", id |-> resp.id,
                                path |-> cs[c].path,
                                result |-> resp.payload]]

\* A thread calls RequestWithAsyncResponse(path, ...): the request goes
\* out with a freshly generated correlation id and the thread blocks.
RequestWithAsyncResponse(c) ==
    /\ calls[c].pc = "idle"
    /\ nextID <= MaxRequests
    /\ \E path \in Paths :
           /\ calls' = [calls EXCEPT ![c] = [pc |-> "waiting", id |-> nextID,
                                             path |-> path,
                                             result |-> NoPayload]]
           /\ outbound' = outbound \cup {[id |-> nextID, path |-> path]}
    /\ nextID' = nextID + 1
    /\ delivery' = NoDelivery
    /\ UNCHANGED <<replies, resolved>>

\* The native side answers one of the requests it holds, whichever.
NativeRespond ==
    /\ \E m \in outbound :
           /\ outbound' = outbound \ {m}
           /\ replies' = replies \cup {[id |-> m.id, payload |-> PayloadFor(m),
                                        stray |-> FALSE]}
    /\ delivery' = NoDelivery
    /\ UNCHANGED <<calls, nextID, resolved>>

\* The native side sends a response whose id no pending request has: the
\* id of a request already resolved, or one never given out.
NativeStray ==
    /\ Cardinality({r \in replies : r.stray}) = 0
    /\ Len(SelectSeq(resolved, LAMBDA e : e.to = 0)) < MaxStray
    /\ \E id \in (0..(nextID - 1)) \ PendingIDs(calls) :
           replies' = replies \cup {[id |-> id,
                                     payload |-> [of |-> "stray", n |-> id],
                                     stray |-> TRUE]}
    /\ delivery' = NoDelivery
    /\ UNCHANGED <<calls, nextID, outbound, resolved>>

\* A response arrives on the reply channel.
Deliver ==
    /\ \E resp \in replies :
           /\ replies' = replies \ {resp}
           /\ calls' = Delivered(calls, resp)
           /\ LET to == IF Matching(calls, resp.id) = {} THEN 0
                        ELSE CHOOSE x \in Matching(calls, resp.id) : TRUE
              IN  /\ resolved' = Append(resolved, [id |-> resp.id, to |-> to])
                  /\ delivery' = [kind |-> IF to = 0 THEN "discarded"
                                           ELSE "resolved",
                                  id |-> resp.id, payload |-> resp.payload,
                                  before |-> calls]
    /\ UNCHANGED <<nextID, outbound>>

NextBridge ==
    \/ \E c \in Callers : RequestWithAsyncResponse(c) /\ UNCHANGED notBridge
    \/ (NativeRespond /\ UNCHANGED notBridge)
    \/ (NativeStray /\ UNCHANGED notBridge)
    \/ (Deliver /\ UNCHANGED notBridge)

SpecBridge == Init /\ [][NextBridge]_vars

(***************************************************************************)
(* Properties of the Platform Request Client                               *)
(***************************************************************************)
\* C13: requests pending together have distinct correlation ids; a call
\* that returned holds the payload answered to its own request, whatever
\* the order of the responses; a response delivered to a call carried that
\* call's id and left every other call as it was; a response matching no
\* pending request left every call as it was.
C13_OwnPayload ==
    /\ \A c, d \in Callers :
           (c # d /\ calls[c].pc = "waiting" /\ calls[d].pc = "waiting")
               => calls[c].id # calls[d].id
    /\ \A c \in Callers :
           (calls[c].pc = "idle" /\ calls[c].id # 0)
               => calls[c].result = PayloadFor(calls[c])
    /\ (delivery.kind = "resolved") =>
           \E c \in Callers :
               /\ delivery.before[c].pc = "waiting"
               /\ delivery.before[c].id = delivery.id
               /\ calls[c].result = delivery.payload
               /\ \A d \in Callers \ {c} : calls[d] = delivery.before[d]
    /\ (delivery.kind = "discarded") =>
           /\ calls = delivery.before
           /\ delivery.id \notin PendingIDs(calls)

\* Two requests were pending together and were resolved in the reverse of
\* the order they were sent in, and a response matching no pending request
\* was discarded while a request was pending.
C13_Witness ==
    /\ delivery.kind = "discarded"
    /\ PendingIDs(calls) # {}
    /\ \E i, j \in DOMAIN resolved :
           /\ i < j
           /\ resolved[i].to # 0
           /\ resolved[j].to # 0
           /\ resolved[i].to # resolved[j].to
           /\ resolved[i].id > resolved[j].id

(***************************************************************************)
(* State machine of a race on one page's History: after any sequence of    *)
(* Load, Previous and Next calls made one after the other, one thread      *)
(* calls page.Referer while another thread makes one History call.  Each   *)
(* History call is atomic (the History is the one NewConcurrentHistory     *)
(* returns); Referer is two of them.                                       *)
(***************************************************************************)
\* The URLs Load records: those url.Parse accepts, as String() gives them.
RecordedURLs ==
    {String(Parse(Sprintf(r)).u) :
        r \in {x \in RawURLs : Parse(Sprintf(x)).err = NoError}}

\* The History call of the other thread.
OtherOps == {"NewEntry", "Previous", "Next"}

\* The history after the History call op(arg).
history_Apply(h, op, arg) ==
    CASE op = "NewEntry" -> history_NewEntry(h, arg)
      [] op = "Previous" -> history_Previous(h).history
      [] op = "Next" -> history_Next(h).history

\* The history after a whole Referer call.
history_Referer(h) == page_Referer([newPage EXCEPT !.history = h]).page.history

\* The two threads start their calls.
RaceStart ==
    /\ race.phase = "setup"
    /\ \E op \in OtherOps :
       \E arg \in IF op = "NewEntry" THEN RecordedURLs ELSE {""} :
           race' = [phase |-> "racing", start |-> history, ref |-> "call",
                    other |-> "call", op |-> op, arg |-> arg]
    /\ UNCHANGED history
    /\ UNCHANGED notRace

\* Referer: rawurl, err := p.history.Previous(); on an error it returns.
RefererPrevious ==
    /\ race.ref = "call"
    /\ LET prev == history_Previous(history)
       IN  /\ history' = prev.history
           /\ race' = [race EXCEPT !.ref = IF prev.err # NoError THEN "done"
                                           ELSE "stepped"]
    /\ UNCHANGED notRace

\* Referer: p.history.Next(), its result ignored.
RefererNext ==
    /\ race.ref = "stepped"
    /\ history' = history_Next(history).history
    /\ race' = [race EXCEPT !.ref = "done"]
    /\ UNCHANGED notRace

\* The other thread's History call.
OtherCall ==
    /\ race.other = "call"
    /\ history' = history_Apply(history, race.op, race.arg)
    /\ race' = [race EXCEPT !.other = "done"]
    /\ UNCHANGED notRace

NextRace ==
    \/ (race.phase = "setup" /\ CallLoad)
    \/ (race.phase = "setup" /\ CallPrevious)
    \/ (race.phase = "setup" /\ CallNext)
    \/ RaceStart
    \/ RefererPrevious
    \/ RefererNext
    \/ OtherCall

SpecRace == Init /\ [][NextRace]_vars

(***************************************************************************)
(* Properties of the race                                                  *)
(***************************************************************************)
\* Both calls returned.
RaceDone == race.ref = "done" /\ race.other = "done"

\* C17 as claimed: whatever the interleaving, the history after both calls
\* is the one a serial order of the two calls gives.
C17_RefererAtomic ==
    RaceDone =>
        \/ history = history_Apply(history_Referer(race.start), race.op, race.arg)
        \/ history = history_Referer(history_Apply(race.start, race.op, race.arg))

(***************************************************************************)
(* State machine of concurrent Driver.Run calls, one per thread, each on   *)
(* its own Driver.  Run reads the package variable driver in its first     *)
(* statement and writes it after it made the queue, the bridges, the       *)
(* handlers and the context; nothing orders two calls' reads and writes.   *)
(***************************************************************************)
\* if driver != nil { return error }: the call is refused or goes on.
RunCheck(c) ==
    /\ runner[c] = "idle"
    /\ runner' = [runner EXCEPT ![c] = IF driver # 0 THEN "refused"
                                       ELSE "passed"]
    /\ UNCHANGED driver

\* The queue, the bridges, the handlers and the context are made, then
\* driver = d, and the call is in its loop.
RunPublish(c) ==
    /\ runner[c] = "passed"
    /\ driver' = c
    /\ runner' = [runner EXCEPT ![c] = "looping"]

\* The loop ends (cancellation, "/driver/run" answered): Run returns.  The
\* variable driver is left as it is.
RunLeave(c) ==
    /\ runner[c] = "looping"
    /\ runner' = [runner EXCEPT ![c] = "returned"]
    /\ UNCHANGED driver

\* The thread calls Run again after its call returned.
RunAgain(c) ==
    /\ runner[c] \in {"refused", "returned"}
    /\ runner' = [runner EXCEPT ![c] = "idle"]
    /\ UNCHANGED driver

NextRun ==
    \/ \E c \in Callers : RunCheck(c) /\ UNCHANGED notRun
    \/ \E c \in Callers : RunPublish(c) /\ UNCHANGED notRun
    \/ \E c \in Callers : RunLeave(c) /\ UNCHANGED notRun
    \/ \E c \in Callers : RunAgain(c) /\ UNCHANGED notRun

SpecRun == Init /\ [][NextRun]_vars

(***************************************************************************)
(* Properties of concurrent Run calls                                      *)
(***************************************************************************)
\* The calls that passed the "driver is already running" check and have
\* not returned.
Running == {c \in Callers : runner[c] \in {"passed", "looping"}}

\* C19 as claimed: at most one Run call is past the check at a time.
C19_AtMostOneRuns == Cardinality(Running) <= 1

=============================================================================
